---- MODULE Spec2Model ----
(***************************************************************************)
(* A top-to-bottom run of digit_recognition.ipynb as a state machine.      *)
(* The notebook is a list of statements (Program); the kernel executes     *)
(* them one after the other against its namespace (ns).  fit and evaluate  *)
(* are unfolded into their epochs and batches; every library call is       *)
(* logged (calls) and every line written to the cell output is kept        *)
(* (stdout).                                                               *)
(***************************************************************************)
EXTENDS Integers, Sequences, FiniteSets

VARIABLES pc, ns, run, calls, stdout, saved

vars == <<pc, ns, run, calls, stdout, saved>>

(* ---------------------------------------------------------------------- *)
(* Bounds                                                                 *)
(* ---------------------------------------------------------------------- *)

\* evaluate returns a loss and an accuracy; each is one of 0..MaxMetric
MaxMetric == 2

Metrics == 0..MaxMetric

(* ---------------------------------------------------------------------- *)
(* Program constants                                                      *)
(* ---------------------------------------------------------------------- *)

\* "a training set of 60,000 images and a test set of 10,000 images"
NTrain == 60000

NTest == 10000

\* fit and evaluate are called without batch_size except at line 186
DefaultBatchSize == 32

Min(a, b) == IF a < b THEN a ELSE b

CeilDiv(a, b) == (a + b - 1) \div b

(* ---------------------------------------------------------------------- *)
(* Values                                                                 *)
(* ---------------------------------------------------------------------- *)

\* a name that is not bound to an array
NoData == [split |-> "none", part |-> "none", n |-> 0, normalized |-> FALSE]

\* a name that is not bound to a metric
Unbound == -1

\* a name that is not bound to a model
NoModel ==
  [defined |-> FALSE, layers |-> <<>>, shapes |-> <<>>, compiled |-> FALSE,
   history |-> <<>>, trainedOn |-> {}, evaluatedOn |-> {}]

\* mnist.load_data(): ((x_train, y_train), (x_test, y_test))
load_data ==
  << << [split |-> "train", part |-> "x", n |-> NTrain, normalized |-> FALSE],
        [split |-> "train", part |-> "y", n |-> NTrain, normalized |-> FALSE] >>,
     << [split |-> "test", part |-> "x", n |-> NTest, normalized |-> FALSE],
        [split |-> "test", part |-> "y", n |-> NTest, normalized |-> FALSE] >> >>

\* tf.keras.utils.normalize(x, axis=1): same array, same length, scaled
normalize(x) == [x EXCEPT !.normalized = TRUE]

\* tf.keras.models.Sequential()
Sequential == [NoModel EXCEPT !.defined = TRUE]

(* ---------------------------------------------------------------------- *)
(* Layers                                                                  *)
(* ---------------------------------------------------------------------- *)

Layer(kind, units, size, activation, input_shape) ==
  [kind |-> kind, units |-> units, size |-> size, activation |-> activation,
   input_shape |-> input_shape]

Flatten(input_shape) == Layer("Flatten", 0, 0, "none", input_shape)

Dense(units, activation) == Layer("Dense", units, 0, activation, <<>>)

Conv2D(filters, kernel, activation, input_shape) ==
  Layer("Conv2D", filters, kernel, activation, input_shape)

BatchNormalization == Layer("BatchNormalization", 0, 0, "none", <<>>)

MaxPooling2D(pool) == Layer("MaxPooling2D", 0, pool, "none", <<>>)

RECURSIVE Product(_)
Product(s) == IF s = <<>> THEN 1 ELSE Head(s) * Product(Tail(s))

\* the end of the batch that starts at example lo: the last batch is short
BatchEndUnclipped(lo, n, bs) == lo + bs

BatchEnd(lo, n, bs) == Min(lo + bs, n)

\* a convolution without padding loses kernel-1 rows and columns
ConvOut(l, in) == <<in[1] - l.size + 1, in[2] - l.size + 1, l.units>>

\* pooling keeps the whole windows only: the size is divided rounding down
PoolCeil(l, in) == <<CeilDiv(in[1], l.size), CeilDiv(in[2], l.size), in[3]>>

PoolOut(l, in) == <<in[1] \div l.size, in[2] \div l.size, in[3]>>

\* the output shape of one example after layer l, given the shape before it
compute_output_shape(l, in) ==
  CASE l.kind = "Flatten" -> <<Product(in)>>
    [] l.kind = "Dense" -> <<l.units>>
    [] l.kind = "Conv2D" -> ConvOut(l, in)
    [] l.kind = "BatchNormalization" -> in
    [] l.kind = "MaxPooling2D" -> PoolOut(l, in)

\* model.add(layer): the first layer brings the input shape
add(m, l) ==
  LET in == IF m.layers = <<>> THEN l.input_shape
            ELSE m.shapes[Len(m.shapes)]
  IN [m EXCEPT !.layers = Append(@, l),
               !.shapes = Append(@, compute_output_shape(l, in))]

(* ---------------------------------------------------------------------- *)
(* The notebook                                                            *)
(* ---------------------------------------------------------------------- *)

Cell1NoTestNormalize ==
  << [op |-> "import", line |-> 33],
     [op |-> "alias", line |-> 36],
     [op |-> "load_data", line |-> 37,
      targets |-> <<"x_train", "y_train", "x_test", "y_test">>],
     [op |-> "normalize", line |-> 40, target |-> "x_train", arg |-> "x_train"] >>

Cell1 ==
  << [op |-> "import", line |-> 33],
     [op |-> "alias", line |-> 36],
     [op |-> "load_data", line |-> 37,
      targets |-> <<"x_train", "y_train", "x_test", "y_test">>],
     [op |-> "normalize", line |-> 40, target |-> "x_train", arg |-> "x_train"],
     [op |-> "normalize", line |-> 41, target |-> "x_test", arg |-> "x_test"] >>

DenseLayersWide ==
  << Flatten(<<28, 28, 1>>), Dense(16, "relu"), Dense(128, "relu"),
     Dense(10, "softmax") >>

DenseLayers ==
  << Flatten(<<28, 28, 1>>), Dense(16, "relu"), Dense(16, "relu"),
     Dense(10, "softmax") >>

SimpleNetLayers ==
  << Conv2D(32, 3, "relu", <<28, 28, 1>>),
     BatchNormalization,
     MaxPooling2D(2),
     Conv2D(64, 3, "relu", <<>>),
     BatchNormalization,
     MaxPooling2D(2),
     Flatten(<<>>),
     Dense(64, "relu"),
     Dense(10, "softmax") >>

Compile(model, line) ==
  [op |-> "compile", line |-> line, model |-> model, optimizer |-> "adam",
   loss |-> "sparse_categorical_crossentropy", metrics |-> <<"accuracy">>]

ModelFitOnTest ==
  [op |-> "fit", line |-> 99, model |-> "model", x |-> "x_test", y |-> "y_test",
   epochs |-> 3, batch_size |-> DefaultBatchSize, checkpoints |-> {}]

ModelFit ==
  [op |-> "fit", line |-> 99, model |-> "model", x |-> "x_train", y |-> "y_train",
   epochs |-> 3, batch_size |-> DefaultBatchSize, checkpoints |-> {}]

SimpleNetFitSaving ==
  [op |-> "fit", line |-> 186, model |-> "SimpleNet_model", x |-> "x_train",
   y |-> "y_train", epochs |-> 10, batch_size |-> 64,
   checkpoints |-> {"SimpleNet.model"}]

SimpleNetFit ==
  [op |-> "fit", line |-> 186, model |-> "SimpleNet_model", x |-> "x_train",
   y |-> "y_train", epochs |-> 10, batch_size |-> 64, checkpoints |-> {}]

\* a cell that builds, compiles and fits one model
BuildCell(model, first, firstAdd, layers, fit) ==
  << [op |-> "Sequential", line |-> first, target |-> model] >>
  \o [i \in 1..Len(layers) |->
        [op |-> "add", line |-> firstAdd + i - 1, model |-> model,
         layer |-> layers[i]]]
  \o << Compile(model, fit.line - 1), fit >>

Cell2 == BuildCell("model", 91, 92, DenseLayers, ModelFit)

Cell3 == BuildCell("SimpleNet_model", 173, 175, SimpleNetLayers, SimpleNetFit)

EvaluateSimpleNet ==
  [op |-> "evaluate", line |-> 222, model |-> "SimpleNet_model", x |-> "x_test",
   y |-> "y_test", batch_size |-> DefaultBatchSize,
   targets |-> <<"loss", "accuracy">>]

Evaluate ==
  [op |-> "evaluate", line |-> 222, model |-> "model", x |-> "x_test",
   y |-> "y_test", batch_size |-> DefaultBatchSize,
   targets |-> <<"loss", "accuracy">>]

PrintLoss == [op |-> "print", line |-> 227, label |-> "Loss: ", arg |-> "loss"]

PrintAccuracyOfLoss ==
  [op |-> "print", line |-> 228, label |-> "Accuracy: ", arg |-> "loss"]

PrintAccuracy ==
  [op |-> "print", line |-> 228, label |-> "Accuracy: ", arg |-> "accuracy"]

Cell4 == << Evaluate, PrintLoss, PrintAccuracy >>

ProgramCell1Twice == Cell1 \o Cell1 \o Cell2 \o Cell3 \o Cell4

Program == Cell1 \o Cell2 \o Cell3 \o Cell4

Done == Len(Program) + 1

Stmt == Program[pc]

(* ---------------------------------------------------------------------- *)
(* The kernel                                                              *)
(* ---------------------------------------------------------------------- *)

Idle == [phase |-> "idle", sub |-> "none", epoch |-> 0, step |-> 0, lo |-> 0, hi |-> 0]

Init ==
  /\ pc = 1
  /\ ns = [tf |-> FALSE, mnist |-> FALSE,
           x_train |-> NoData, y_train |-> NoData,
           x_test |-> NoData, y_test |-> NoData,
           model |-> NoModel, SimpleNet_model |-> NoModel,
           loss |-> Unbound, accuracy |-> Unbound]
  /\ run = Idle
  /\ calls = <<>>
  /\ stdout = <<>>
  /\ saved = {}

AtStmt(op) == pc < Done /\ run.phase = "idle" /\ Stmt.op = op

Call(fn, model, x, y) ==
  [fn |-> fn, line |-> Stmt.line, model |-> model, x |-> x, y |-> y,
   returned |-> FALSE, ret |-> <<>>]

Returned(c, ret) == [c EXCEPT !.returned = TRUE, !.ret = ret]

\* the call in progress is the last one logged
Return(ret) == [calls EXCEPT ![Len(calls)] = Returned(@, ret)]

Line(src, label, a, b) == [src |-> src, label |-> label, a |-> a, b |-> b]

\* import tensorflow as tf
Import ==
  /\ AtStmt("import")
  /\ ns' = [ns EXCEPT !.tf = TRUE]
  /\ pc' = pc + 1
  /\ UNCHANGED <<run, calls, stdout, saved>>

\* mnist = tf.keras.datasets.mnist
Alias ==
  /\ AtStmt("alias")
  /\ ns.tf
  /\ ns' = [ns EXCEPT !.mnist = TRUE]
  /\ pc' = pc + 1
  /\ UNCHANGED <<run, calls, stdout, saved>>

\* (x_train, y_train), (x_test, y_test) = mnist.load_data()
LoadData ==
  /\ AtStmt("load_data")
  /\ ns.mnist
  /\ LET r == load_data
         t == Stmt.targets
     IN ns' = [ns EXCEPT ![t[1]] = r[1][1], ![t[2]] = r[1][2],
                         ![t[3]] = r[2][1], ![t[4]] = r[2][2]]
  /\ calls' = Append(calls, Returned(Call("load_data", "none", NoData, NoData), <<>>))
  /\ pc' = pc + 1
  /\ UNCHANGED <<run, stdout, saved>>

\* x = tf.keras.utils.normalize(x, axis=1)
Normalize ==
  /\ AtStmt("normalize")
  /\ ns.tf
  /\ ns[Stmt.arg] # NoData
  /\ ns' = [ns EXCEPT ![Stmt.target] = normalize(ns[Stmt.arg])]
  /\ calls' = Append(calls, Returned(Call("normalize", "none", ns[Stmt.arg], NoData), <<>>))
  /\ pc' = pc + 1
  /\ UNCHANGED <<run, stdout, saved>>

\* m = tf.keras.models.Sequential()
NewModel ==
  /\ AtStmt("Sequential")
  /\ ns.tf
  /\ ns' = [ns EXCEPT ![Stmt.target] = Sequential]
  /\ calls' = Append(calls, Returned(Call("Sequential", Stmt.target, NoData, NoData), <<>>))
  /\ pc' = pc + 1
  /\ UNCHANGED <<run, stdout, saved>>

\* m.add(layer)
AddLayer ==
  /\ AtStmt("add")
  /\ ns[Stmt.model].defined
  /\ ns' = [ns EXCEPT ![Stmt.model] = add(@, Stmt.layer)]
  /\ calls' = Append(calls, Returned(Call("add", Stmt.model, NoData, NoData), <<>>))
  /\ pc' = pc + 1
  /\ UNCHANGED <<run, stdout, saved>>

\* m.compile(optimizer=..., loss=..., metrics=[...])
CompileModel ==
  /\ AtStmt("compile")
  /\ ns[Stmt.model].defined
  /\ ns' = [ns EXCEPT ![Stmt.model].compiled = TRUE]
  /\ calls' = Append(calls, Returned(Call("compile", Stmt.model, NoData, NoData), <<>>))
  /\ pc' = pc + 1
  /\ UNCHANGED <<run, stdout, saved>>

\* m.fit(x, y, epochs=..., batch_size=...) is entered
FitBegin ==
  /\ AtStmt("fit")
  /\ ns[Stmt.model].compiled
  /\ ns[Stmt.x] # NoData /\ ns[Stmt.y] # NoData
  /\ ns[Stmt.x].n = ns[Stmt.y].n
  /\ run' = [Idle EXCEPT !.phase = "fit", !.sub = "between"]
  /\ calls' = Append(calls, Call("fit", Stmt.model, ns[Stmt.x], ns[Stmt.y]))
  /\ UNCHANGED <<pc, ns, stdout, saved>>

\* "Epoch e/epochs"
EpochBegin ==
  /\ run.phase = "fit" /\ run.sub = "between"
  /\ run.epoch < Stmt.epochs
  /\ run' = [run EXCEPT !.sub = "batches", !.epoch = @ + 1, !.step = 0,
                         !.lo = 0, !.hi = 0]
  /\ stdout' = Append(stdout, Line("fit", "Epoch", run.epoch + 1, Stmt.epochs))
  /\ UNCHANGED <<pc, ns, calls, saved>>

\* one training step on the next batch of (x, y)
TrainBatch ==
  /\ run.phase = "fit" /\ run.sub = "batches"
  /\ run.hi < ns[Stmt.x].n
  /\ run' = [run EXCEPT !.step = @ + 1, !.lo = run.hi,
                         !.hi = BatchEnd(run.hi, ns[Stmt.x].n, Stmt.batch_size)]
  /\ ns' = [ns EXCEPT ![Stmt.model].trainedOn =
                        @ \cup {ns[Stmt.x].split, ns[Stmt.y].split}]
  /\ UNCHANGED <<pc, calls, stdout, saved>>

\* "steps/steps [=====] - loss: ... - accuracy: ..."
EpochEnd ==
  /\ run.phase = "fit" /\ run.sub = "batches"
  /\ run.hi >= ns[Stmt.x].n
  /\ run' = [run EXCEPT !.sub = "between"]
  /\ ns' = [ns EXCEPT ![Stmt.model].history =
                        Append(@, [steps |-> run.step, examples |-> run.hi,
                                   last |-> run.hi - run.lo])]
  /\ stdout' = Append(stdout, Line("fit", "steps", run.step, run.step))
  /\ saved' = saved \cup Stmt.checkpoints
  /\ UNCHANGED <<pc, calls>>

\* fit returns its History; the cell goes on
FitReturn ==
  /\ run.phase = "fit" /\ run.sub = "between"
  /\ run.epoch = Stmt.epochs
  /\ run' = Idle
  /\ calls' = Return(<<>>)
  /\ pc' = pc + 1
  /\ UNCHANGED <<ns, stdout, saved>>

\* m.evaluate(x, y) is entered
EvaluateBegin ==
  /\ AtStmt("evaluate")
  /\ ns[Stmt.model].compiled
  /\ ns[Stmt.x] # NoData /\ ns[Stmt.y] # NoData
  /\ ns[Stmt.x].n = ns[Stmt.y].n
  /\ run' = [Idle EXCEPT !.phase = "evaluate", !.sub = "batches"]
  /\ calls' = Append(calls, Call("evaluate", Stmt.model, ns[Stmt.x], ns[Stmt.y]))
  /\ UNCHANGED <<pc, ns, stdout, saved>>

\* one test step on the next batch of (x, y)
TestBatch ==
  /\ run.phase = "evaluate" /\ run.sub = "batches"
  /\ run.hi < ns[Stmt.x].n
  /\ run' = [run EXCEPT !.step = @ + 1, !.lo = run.hi,
                         !.hi = BatchEnd(run.hi, ns[Stmt.x].n, Stmt.batch_size)]
  /\ ns' = [ns EXCEPT ![Stmt.model].evaluatedOn =
                        @ \cup {ns[Stmt.x].split, ns[Stmt.y].split}]
  /\ UNCHANGED <<pc, calls, stdout, saved>>

\* loss, accuracy = <the pair evaluate returns>
EvaluateReturn ==
  /\ run.phase = "evaluate" /\ run.sub = "batches"
  /\ run.hi >= ns[Stmt.x].n
  /\ \E l \in Metrics, a \in Metrics :
        /\ calls' = Return(<<l, a>>)
        /\ ns' = [ns EXCEPT ![Stmt.targets[1]] = l, ![Stmt.targets[2]] = a]
  /\ stdout' = Append(stdout, Line("evaluate", "steps", run.step, run.hi))
  /\ run' = Idle
  /\ pc' = pc + 1
  /\ UNCHANGED saved

\* print(label, value)
PrintStmt ==
  /\ AtStmt("print")
  /\ ns[Stmt.arg] # Unbound
  /\ stdout' = Append(stdout, Line("print", Stmt.label, ns[Stmt.arg], 0))
  /\ calls' = Append(calls, Returned(Call("print", "none", NoData, NoData), <<>>))
  /\ pc' = pc + 1
  /\ UNCHANGED <<ns, run, saved>>

Next ==
  \/ Import
  \/ Alias
  \/ LoadData
  \/ Normalize
  \/ NewModel
  \/ AddLayer
  \/ CompileModel
  \/ FitBegin
  \/ EpochBegin
  \/ TrainBatch
  \/ EpochEnd
  \/ FitReturn
  \/ EvaluateBegin
  \/ TestBatch
  \/ EvaluateReturn
  \/ PrintStmt

Spec == Init /\ [][Next]_vars

(* ---------------------------------------------------------------------- *)
(* Properties                                                              *)
(* ---------------------------------------------------------------------- *)

Models == {"model", "SimpleNet_model"}

CallsOf(fn) == {i \in DOMAIN calls : calls[i].fn = fn}

Count(fn) == Cardinality(CallsOf(fn))

FitOf(m) == IF m = "model" THEN ModelFit ELSE SimpleNetFit

LayersOf(m) == IF m = "model" THEN DenseLayers ELSE SimpleNetLayers

\* fit of m has returned after all its epochs over training examples
Trained(m) ==
  /\ \E i \in CallsOf("fit") : calls[i].model = m /\ calls[i].returned
  /\ Len(ns[m].history) = FitOf(m).epochs
  /\ "train" \in ns[m].trainedOn

\* evaluate of m on test examples has returned its (loss, accuracy)
TestAccuracyObtained(m) ==
  \E i \in CallsOf("evaluate") :
     /\ calls[i].model = m /\ calls[i].returned
     /\ calls[i].x.split = "test" /\ calls[i].y.split = "test"

\* the lines "steps/steps - loss: ... - accuracy: ..." that fit wrote
TrainingMetrics == SelectSeq(stdout, LAMBDA l : l.src = "fit" /\ l.label = "steps")

FitNeedsNormalized ==
  CallsOf("fit") # {} => ns.x_train.normalized /\ ns.x_test.normalized

FitNeedsBuilt ==
  \A i \in CallsOf("fit") :
     /\ ns[calls[i].model].compiled
     /\ ns[calls[i].model].layers = LayersOf(calls[i].model)

EvaluateNeedsFit ==
  \A i \in CallsOf("evaluate") :
     \E j \in CallsOf("fit") :
        /\ j < i /\ calls[j].model = calls[i].model /\ calls[j].returned
        /\ Len(ns[calls[i].model].history) = FitOf(calls[i].model).epochs

EvaluateReturned == \E i \in CallsOf("evaluate") : calls[i].returned

Counted == {"load_data", "normalize", "fit", "evaluate", "print"}

\* C3 as stated: load_data, normalize, fit, evaluate and print are each
\* called exactly once in a run
C3_EachCallOnce ==
  /\ \A fn \in Counted : Count(fn) <= 1
  /\ pc = Done => \A fn \in Counted : Count(fn) = 1

Expected(fn) == IF fn \in {"normalize", "fit", "print"} THEN 2 ELSE 1

\* C3 as amended: every call statement of the notebook is executed exactly
\* once, which makes one load_data and one evaluate call but two normalize,
\* two fit and two print calls
C3_EachStatementOnce ==
  /\ \A i, j \in DOMAIN calls : calls[i].line = calls[j].line => i = j
  /\ \A fn \in Counted : Count(fn) <= Expected(fn)
  /\ pc = Done => \A fn \in Counted : Count(fn) = Expected(fn)

C3_Witness == pc = Done /\ Count("normalize") = 2 /\ Count("fit") = 2

\* the batch size and the number of examples of the call in progress
RunBatchSize == Stmt.batch_size

RunExamples == ns[Stmt.x].n

\* the batches taken so far in this pass are the consecutive ranges
\* [0, bs), [bs, 2bs), ... and the current one is not empty
BatchesPartition ==
  (run.phase # "idle" /\ run.step >= 1) =>
    /\ run.lo = (run.step - 1) * RunBatchSize
    /\ run.hi = Min(run.step * RunBatchSize, RunExamples)
    /\ run.lo < run.hi

Pass(steps, examples, last) == [steps |-> steps, examples |-> examples, last |-> last]

\* every completed epoch of m was steps batches over all the training examples
EpochsAre(m, steps, last) ==
  /\ Len(ns[m].history) <= FitOf(m).epochs
  /\ \A e \in DOMAIN ns[m].history :
        /\ ns[m].history[e] = Pass(steps, NTrain, last)
        /\ steps = CeilDiv(NTrain, FitOf(m).batch_size)

\* C4: every epoch is one full pass: the batches partition the examples, an
\* epoch of the dense model is 1875 batches (3 epochs), an epoch of SimpleNet
\* is 938 batches of which the last holds 32 examples (10 epochs), and
\* evaluate covers the 10000 test examples in 313 batches
C4_EpochIsOneFullPass ==
  /\ BatchesPartition
  /\ EpochsAre("model", 1875, 32)
  /\ EpochsAre("SimpleNet_model", 938, 32)
  /\ \A i \in CallsOf("fit") :
        calls[i].returned =>
          Len(ns[calls[i].model].history) = IF calls[i].model = "model" THEN 3 ELSE 10
  /\ \A k \in DOMAIN stdout :
        stdout[k].src = "evaluate" =>
          /\ stdout[k].a = 313 /\ stdout[k].b = NTest
          /\ stdout[k].a = CeilDiv(NTest, Evaluate.batch_size)

C4_Witness ==
  /\ pc = Done
  /\ Len(ns.model.history) = 3
  /\ Len(ns.SimpleNet_model.history) = 10
  /\ \E k \in DOMAIN stdout : stdout[k].src = "evaluate"

Kinds(m) == [i \in DOMAIN ns[m].layers |-> ns[m].layers[i].kind]

Activations(m) == [i \in DOMAIN ns[m].layers |-> ns[m].layers[i].activation]

\* C5: the compiled dense model is Flatten (28x28 -> 784), Dense 16 relu,
\* Dense 16 relu, Dense 10 softmax, and nothing else
C5_DenseStructure ==
  ns.model.compiled =>
    /\ Kinds("model") = <<"Flatten", "Dense", "Dense", "Dense">>
    /\ ns.model.shapes = << <<784>>, <<16>>, <<16>>, <<10>> >>
    /\ Activations("model") = <<"none", "relu", "relu", "softmax">>
    /\ ns.model.layers[1].input_shape[1] = 28
    /\ ns.model.layers[1].input_shape[2] = 28

C5_Witness == ns.model.compiled /\ Trained("model")

RECURSIVE Reshaping(_, _)
Reshaping(layers, shapes) ==
  IF layers = <<>> THEN <<>>
  ELSE IF Head(layers).kind = "BatchNormalization"
       THEN Reshaping(Tail(layers), Tail(shapes))
       ELSE <<Head(shapes)>> \o Reshaping(Tail(layers), Tail(shapes))

\* C7: in the compiled SimpleNet every pooling layer shrinks both spatial
\* dimensions of what it receives, every dimension is positive, and the
\* shapes are 26x26x32, 13x13x32, 11x11x64, 5x5x64, 1600, 64, 10
C7_SimpleNetShapes ==
  ns.SimpleNet_model.compiled =>
    LET m == ns.SimpleNet_model IN
    /\ m.layers[1].input_shape = <<28, 28, 1>>
    /\ \A i \in DOMAIN m.layers :
          m.layers[i].kind = "MaxPooling2D" =>
            /\ i > 1
            /\ m.shapes[i][1] < m.shapes[i - 1][1]
            /\ m.shapes[i][2] < m.shapes[i - 1][2]
    /\ \A i \in DOMAIN m.shapes : \A d \in DOMAIN m.shapes[i] : m.shapes[i][d] > 0
    /\ Reshaping(m.layers, m.shapes) =
         << <<26, 26, 32>>, <<13, 13, 32>>, <<11, 11, 64>>, <<5, 5, 64>>,
            <<1600>>, <<64>>, <<10>> >>
    /\ \A i \in DOMAIN m.layers :
          m.layers[i].kind = "Flatten" => Len(m.shapes[i]) = 1 /\ Len(m.shapes[i - 1]) = 3

C7_Witness == ns.SimpleNet_model.compiled /\ Trained("SimpleNet_model")

Printed == SelectSeq(stdout, LAMBDA l : l.src = "print")

C9_TrainTestSeparation ==
  /\ \A i \in CallsOf("fit") :
        /\ calls[i].x.split = "train" /\ calls[i].x.part = "x"
        /\ calls[i].y.split = "train" /\ calls[i].y.part = "y"
  /\ \A i \in CallsOf("evaluate") :
        /\ calls[i].x.split = "test" /\ calls[i].x.part = "x"
        /\ calls[i].y.split = "test" /\ calls[i].y.part = "y"
  /\ \A m \in Models :
        /\ ns[m].trainedOn \subseteq {"train"}
        /\ ns[m].evaluatedOn \subseteq {"test"}

C9_Witness ==
  /\ Count("fit") = 2
  /\ EvaluateReturned
  /\ ns.model.trainedOn = {"train"}
  /\ ns.SimpleNet_model.trainedOn = {"train"}
  /\ ns.model.evaluatedOn = {"test"}

====
